---- MODULE Spec2Model ----
(***************************************************************************)
(* Model of the graph-access layer and of the benchmark runner of          *)
(* NetworkXum / PyGraphDB.                                                 *)
(*                                                                         *)
(*   SpecStore   the relational adapter (pygraphdb/plain_sql.py): a table  *)
(*               of edges seen through one SQLAlchemy session.             *)
(***************************************************************************)
EXTENDS Integers, Sequences, FiniteSets, TLC

\* ---------------------------------------------------------------------
\* Bounds
\* ---------------------------------------------------------------------
MaxVertex == 2
MaxWeight == 2
MaxId == 2
MaxBatch == 2
MaxFailures == 1
NumDatasets == 1
NumBackends == 2
MaxSample == 1
MaxCalls == 3
MaxRuns == 2
ProbeItems == 3
TickSeconds == 25
MaxTicks == 3

\* P3Bench(max_seconds_per_query=60)
max_seconds_per_query == 60

\* ---------------------------------------------------------------------
\* Values
\* ---------------------------------------------------------------------
\* `None` of an optional integer (an edge without `_id`).
NoId == 0
\* SQL NULL, as returned to Python (`None`).
NULL == 0 - 1

Vertices == 1..MaxVertex
Weights == 1..MaxWeight
Ids == 1..MaxId

\* An edge as the callers hand it in: Edge(v_from, v_to, weight) with the
\* optional `_id` and the `directed` flag of the data model.
Edge == [id : Ids \cup {NoId}, v_from : Vertices, v_to : Vertices,
         weight : Weights, directed : BOOLEAN]

\* A row of `table_edges`: the columns of EdgeSQL. There is no column for
\* `directed`; `attributes_json` is never written by the adapter.
EdgeSQL == [id : Ids, v_from : Vertices, v_to : Vertices, weight : Weights]

\* `'_id' in e`
HasId(e) == e.id # NoId

\* The edge named by operations that take none.
NoEdge == [id |-> NoId, v_from |-> 1, v_to |-> 1, weight |-> 1, directed |-> TRUE]

\* `None`, as returned by Query.first() on an empty result.
NoRow == [id |-> NoId, v_from |-> 0, v_to |-> 0, weight |-> 0]

VARIABLES
    rows,        \* table_edges as this session sees it (committed + open transaction)
    committed,   \* table_edges as last committed
    failures,    \* number of commits that failed so far
    last,        \* the last adapter call: [op, e, ret]
    rt,          \* 1 after insert_edge(e); 2 after insert_edge(e); remove_edge(e)
    unreported,  \* ids of rows added by an insert_edges call that returned 0
    \* --- the benchmark session (BenchGraphs/main.py, benchmarks/P3Bench.py)
    in_memory,   \* per backend: type(gdb).__in_memory__
    enabled,     \* per dataset: dataset['enabled']
    sample,      \* per list of the task sampler: its length
    pc,          \* phase of main: idle, test, import, bench, print, finally, exited
    step,        \* inside P3Bench.run: start, make_db, enter, task, dump
    ds,          \* index of the dataset of the current pair
    db,          \* index of the backend of the current pair
    op,          \* index in OpSeq of the next bench_task
    gdb,         \* self.gdb: "none" or "handle"
    repeat_existing,
    stats,       \* keys held by the measurement store in memory
    dumped,      \* keys in the measurement store's file
    loaded,      \* keys the session found in the file when it began
    calls,       \* calls made on backend handles in this session
    runs,        \* sessions started
    benched,     \* pairs for which bench_buffered_graph was called in this session
    exc,         \* an exception is propagating out of a phase, or ended the session
    remove_all_afterwards,  \* the argument of bench_buffered_graph
    trace,       \* the functions counter.run() called for the current pair, in order
    counts,      \* per recorded key: the count_operations of its record
    \* --- one pass of the write operations on a backend
    wpc,         \* populate, remove_e, upsert_e, remove_es, upsert_es, done
    before,      \* the table when the pass began
    by_one,      \* tasks.edges_to_change_by_one
    batched,     \* tasks.edges_to_change_batched
    \* --- one operation function of P3Bench running its loop
    pname,       \* the function
    ppc,         \* idle, loop, returned, raised
    item,        \* index of the next item of the sampled list
    cnt,         \* cnt
    cnt_found,   \* cnt_found
    dt,          \* seconds since t0
    over,        \* the item during which dt first exceeded the budget, or 0
    \* --- a neighbourhood query on a stored graph
    answer,      \* the last query: [fn, impl, vs, v, include_related, ret]
    \* --- one Neo4j server and the adapters opened on it
    names,       \* per adapter: the database name in its url
    nodes,       \* the nodes of the server: [label, id]
    rels,        \* its relationships: [n, type, label, v1, v2, weight, id]
    neo_last,    \* the last adapter call: [adapter, op, v, ret]
    \* --- one call of GraphBase.insert_dump_parallel
    ipc,              \* idle, read, split, returned, raised
    thread_count,
    batch_per_thread,
    remaining,        \* edges of the file not read yet
    es_len,           \* len(es) of the chunk read last
    chunks_read,      \* chunks read from the file
    chunks_done,      \* chunks whose insert_edges calls have all finished
    in_flight,        \* edges handed to workers and not inserted yet
    file_len,         \* edges of the file at filepath
    inserted          \* edges of the finished insert_edges calls

storeVars == <<rows, committed, failures, last, rt, unreported>>

runnerVars == <<in_memory, enabled, sample, pc, step, ds, db, op, gdb,
                repeat_existing, stats, dumped, loaded, calls, runs, benched, exc,
                remove_all_afterwards, trace, counts>>

passVars == <<wpc, before, by_one, batched>>

probeVars == <<pname, ppc, item, cnt, cnt_found, dt, over>>

queryVars == <<answer>>

neoVars == <<names, nodes, rels, neo_last>>

importVars == <<ipc, thread_count, batch_per_thread, remaining, es_len,
                chunks_read, chunks_done, in_flight, file_len, inserted>>

vars == <<rows, committed, failures, last, rt, unreported,
          in_memory, enabled, sample, pc, step, ds, db, op, gdb,
          repeat_existing, stats, dumped, loaded, calls, runs, benched, exc,
          remove_all_afterwards, trace, counts,
          wpc, before, by_one, batched,
          pname, ppc, item, cnt, cnt_found, dt, over,
          answer,
          names, nodes, rels, neo_last,
          ipc, thread_count, batch_per_thread, remaining, es_len, chunks_read, chunks_done, in_flight,
          file_len, inserted>>

\* ---------------------------------------------------------------------
\* Helpers
\* ---------------------------------------------------------------------
RECURSIVE SumWeights(_)
SumWeights(S) ==
    IF S = {} THEN 0
    ELSE LET r == CHOOSE x \in S : TRUE IN r.weight + SumWeights(S \ {r})

RowIds(T) == {r.id : r \in T}

\* Row order of an unordered SELECT: by primary key.
FirstRow(S) == IF S = {} THEN NoRow ELSE CHOOSE r \in S : \A q \in S : r.id <= q.id

\* The primary key given to a row added without one.
FreshId(T) == CHOOSE i \in Ids : i \notin RowIds(T) /\ \A j \in Ids \ RowIds(T) : i <= j

\* ---------------------------------------------------------------------
\* Queries of PlainSQL, over a table T
\* ---------------------------------------------------------------------
find_edge(T, v_from, v_to) ==
    FirstRow({r \in T : r.v_from = v_from /\ r.v_to = v_to})

find_edge_or_inv(T, v1, v2) ==
    {r \in T : \/ (r.v_from = v1 /\ r.v_to = v2)
               \/ (r.v_from = v2 /\ r.v_to = v1)}

edges_from(T, v) == {r \in T : r.v_from = v}

edges_to(T, v) == {r \in T : r.v_to = v}

edges_related(T, v) == {r \in T : r.v_from = v \/ r.v_to = v}

count_edges(T) == Cardinality(T)

\* SELECT count(weight), sum(weight) ... : over no rows the sum is NULL.
count_related(T, v) ==
    LET M == {r \in T : r.v_from = v \/ r.v_to = v}
    IN <<Cardinality(M), IF M = {} THEN NULL ELSE SumWeights(M)>>

\* ---------------------------------------------------------------------
\* The session: Session.add / Session.commit / Session.rollback
\* ---------------------------------------------------------------------
\* Return values that are not counts.
RetNone == 0 - 1
Raised == 0 - 2

\* What Session.commit() can do. "flush_failed": the flush raises and
\* commit() itself rolls the transaction back before re-raising.
\* "commit_failed": the flush went through and the COMMIT raises; the
\* work stays in the open transaction until a rollback or a later commit.
CommitOutcomes == {"ok", "flush_failed", "commit_failed"}

\* A commit can fail only while the failure budget lasts.
CanEnd(o) == o = "ok" \/ failures < MaxFailures

\* session.add(e) for each e of es, in order, to the table T: a row
\* without `_id` gets the next primary key.
RECURSIVE AddAll(_, _)
AddAll(T, es) ==
    IF es = <<>> THEN T
    ELSE LET e == Head(es)
             r == [id |-> IF HasId(e) THEN e.id ELSE FreshId(T),
                   v_from |-> e.v_from, v_to |-> e.v_to, weight |-> e.weight]
         IN AddAll(T \cup {r}, Tail(es))

\* The table seen by the session and the committed table after
\* commit() with outcome o on the pending table T.
SeenAfter(T, o) == IF o = "flush_failed" THEN committed ELSE T

CommittedAfter(T, o) == IF o = "ok" THEN T ELSE committed

\* Ids of the zero-reported rows that still exist somewhere.
Unreported(U, seen, comm) == U \cap RowIds(seen \cup comm)

\* ---------------------------------------------------------------------
\* Modifications of PlainSQL
\* ---------------------------------------------------------------------
\* The rows insert_edge takes for copies of e.
Copies(T, e, check_uniqness) ==
    IF ~check_uniqness THEN {}
    ELSE IF HasId(e) THEN {r \in T : r.id = e.id}
    ELSE {r \in T : r.v_from = e.v_from /\ r.v_to = e.v_to}

\* The table after insert_edge's add or weight update, before the commit.
InsertEdgeTable(T, e, check_uniqness) ==
    LET copies == Copies(T, e, check_uniqness)
        c == FirstRow(copies)
    IN IF copies = {} THEN AddAll(T, <<e>>)
       ELSE (T \ {c}) \cup {[c EXCEPT !.weight = e.weight]}

\* remove_edge deleting one matching row only.
RemoveEdgeTable_FirstOnly(T, e) ==
    IF HasId(e) THEN {r \in T : r.id # e.id}
    ELSE T \ {FirstRow({r \in T : r.v_from = e.v_from /\ r.v_to = e.v_to})}

\* The table after remove_edge's DELETE, before the commit.
RemoveEdgeTable(T, e) ==
    IF HasId(e) THEN {r \in T : r.id # e.id}
    ELSE {r \in T : ~(r.v_from = e.v_from /\ r.v_to = e.v_to)}

\* insert_edge(e, check_uniqness): a duplicate primary key makes the flush
\* fail; a failed commit propagates to the caller.
InsertEdge(e, check_uniqness, out) ==
    LET adds == Copies(rows, e, check_uniqness) = {}
        clash == adds /\ HasId(e) /\ e.id \in RowIds(rows)
        T == IF clash THEN rows ELSE InsertEdgeTable(rows, e, check_uniqness)
        o == IF clash THEN "flush_failed" ELSE out
    IN /\ adds /\ ~HasId(e) => RowIds(rows) # Ids
       /\ clash \/ CanEnd(out)
       /\   /\ rows' = SeenAfter(T, o)
            /\ committed' = CommittedAfter(T, o)
            /\ failures' = IF o = "ok" \/ clash THEN failures ELSE failures + 1
            /\ last' = [op |-> "insert_edge", e |-> e, chk |-> check_uniqness,
                        ret |-> IF o = "ok" THEN RetNone ELSE Raised]
            /\ rt' = IF o = "ok" THEN 1 ELSE 0
            /\ unreported' = Unreported(unreported, rows', committed')
            /\ UNCHANGED <<runnerVars, passVars, probeVars, queryVars, neoVars, importVars>>

\* remove_edge(e)
RemoveEdge(e, o) ==
    LET T == RemoveEdgeTable(rows, e)
    IN  /\ CanEnd(o)
        /\ rows' = SeenAfter(T, o)
        /\ committed' = CommittedAfter(T, o)
        /\ failures' = IF o = "ok" THEN failures ELSE failures + 1
        /\ last' = [op |-> "remove_edge", e |-> e, chk |-> FALSE,
                    ret |-> IF o = "ok" THEN RetNone ELSE Raised]
        /\ rt' = IF o = "ok" /\ rt = 1 /\ last.e = e THEN 2 ELSE 0
        /\ unreported' = Unreported(unreported, rows', committed')
        /\ UNCHANGED <<runnerVars, passVars, probeVars, queryVars, neoVars, importVars>>

\* insert_edges(es): add every edge, commit, len(es); on any exception 0,
\* without a rollback.
InsertEdges(es, o) ==
    LET T == AddAll(rows, es)
    IN /\ Cardinality(rows) + Len(es) <= MaxId
       /\ CanEnd(o)
       /\   /\ rows' = SeenAfter(T, o)
            /\ committed' = CommittedAfter(T, o)
            /\ failures' = IF o = "ok" THEN failures ELSE failures + 1
            /\ last' = [op |-> "insert_edges", e |-> NoEdge, chk |-> FALSE,
                        ret |-> IF o = "ok" THEN Len(es) ELSE 0]
            /\ rt' = 0
            /\ unreported' = Unreported(
                   IF o = "ok" THEN unreported
                   ELSE unreported \cup (RowIds(T) \ RowIds(rows)),
                   rows', committed')
            /\ UNCHANGED <<runnerVars, passVars, probeVars, queryVars, neoVars, importVars>>

\* remove_node(v): the count of deleted rows; on any exception rollback and 0.
RemoveNode(v, o) ==
    LET T == {r \in rows : ~(r.v_from = v \/ r.v_to = v)}
    IN  /\ CanEnd(o)
        /\ rows' = IF o = "ok" THEN T ELSE committed
        /\ committed' = CommittedAfter(T, o)
        /\ failures' = IF o = "ok" THEN failures ELSE failures + 1
        /\ last' = [op |-> "remove_node",
                    e |-> [NoEdge EXCEPT !.v_from = v, !.v_to = v], chk |-> FALSE,
                    ret |-> IF o = "ok" THEN Cardinality(rows \ T) ELSE 0]
        /\ rt' = 0
        /\ unreported' = Unreported(unreported, rows', committed')
        /\ UNCHANGED <<runnerVars, passVars, probeVars, queryVars, neoVars, importVars>>

\* remove_all(): the count of deleted rows; on any exception rollback and None.
RemoveAll(o) ==
        /\ CanEnd(o)
        /\ rows' = IF o = "ok" THEN {} ELSE committed
        /\ committed' = CommittedAfter({}, o)
        /\ failures' = IF o = "ok" THEN failures ELSE failures + 1
        /\ last' = [op |-> "remove_all", e |-> NoEdge, chk |-> FALSE,
                    ret |-> IF o = "ok" THEN Cardinality(rows) ELSE RetNone]
        /\ rt' = 0
        /\ unreported' = Unreported(unreported, rows', committed')
        /\ UNCHANGED <<runnerVars, passVars, probeVars, queryVars, neoVars, importVars>>

\* ---------------------------------------------------------------------
\* SpecStore
\* ---------------------------------------------------------------------
\* The edges handed to insert_edges: plain Edge objects, which the adapter
\* converts with EdgeSQL(v_from, v_to, weight).
BatchEdges == {e \in Edge : e.id = NoId /\ e.directed}

Batches == UNION {[1..n -> BatchEdges] : n \in 0..MaxBatch}

\* The session's variables while only the adapter is looked at.
InitRunnerIdle ==
    /\ in_memory = [b \in 1..NumBackends |-> FALSE]
    /\ enabled = [d \in 1..NumDatasets |-> TRUE]
    /\ sample = [l \in {"edges_to_query", "nodes_to_query",
                        "edges_to_change_by_one", "edges_to_change_batched",
                        "nodes_to_change_by_one"} |-> 0]
    /\ pc = "idle"
    /\ step = "start"
    /\ ds = 1
    /\ db = 1
    /\ op = 1
    /\ gdb = "none"
    /\ repeat_existing = FALSE
    /\ stats = {}
    /\ dumped = {}
    /\ loaded = {}
    /\ calls = 0
    /\ runs = 0
    /\ benched = {}
    /\ exc = FALSE
    /\ remove_all_afterwards = FALSE
    /\ trace = <<>>
    /\ counts = <<>>

InitTable ==
    /\ rows = {}
    /\ committed = {}
    /\ failures = 0
    /\ last = [op |-> "init", e |-> NoEdge, chk |-> FALSE, ret |-> RetNone]
    /\ rt = 0
    /\ unreported = {}

\* No pass of the write operations is going on.
InitPassIdle ==
    /\ wpc = "populate"
    /\ before = {}
    /\ by_one = <<>>
    /\ batched = <<>>

\* No operation function is running.
InitProbeIdle ==
    /\ pname = "none"
    /\ ppc = "idle"
    /\ item = 1
    /\ cnt = 0
    /\ cnt_found = 0
    /\ dt = 0
    /\ over = 0

\* No query was made.
InitQueryIdle ==
    answer = [fn |-> "none", impl |-> "none", vs |-> {}, v |-> 0,
              include_related |-> FALSE, ret |-> {}]

\* No Neo4j adapter is open.
InitNeoIdle ==
    /\ names = <<>>
    /\ nodes = {}
    /\ rels = {}
    /\ neo_last = [adapter |-> 0, op |-> "init", v |-> 0, ret |-> RetNone]

\* No import is going on.
InitImportIdle ==
    /\ ipc = "idle"
    /\ thread_count = 1
    /\ batch_per_thread = 1
    /\ remaining = 0
    /\ es_len = 0
    /\ chunks_read = 0
    /\ chunks_done = 0
    /\ in_flight = 0
    /\ file_len = 0
    /\ inserted = 0

InitStore ==
    /\ InitTable
    /\ InitRunnerIdle
    /\ InitPassIdle
    /\ InitProbeIdle
    /\ InitQueryIdle
    /\ InitNeoIdle
    /\ InitImportIdle

\* The adapter on a database whose commits succeed.
NextStore ==
    \/ \E e \in Edge, c \in BOOLEAN : InsertEdge(e, c, "ok")
    \/ \E e \in Edge : RemoveEdge(e, "ok")
    \/ \E es \in Batches : InsertEdges(es, "ok")
    \/ \E v \in Vertices : RemoveNode(v, "ok")
    \/ RemoveAll("ok")

SpecStore == InitStore /\ [][NextStore]_vars

\* ---------------------------------------------------------------------
\* SpecSession: the adapter on a database whose commits can fail
\* ---------------------------------------------------------------------
SessionEdges == {e \in BatchEdges : e.weight = 1}

SessionBatches == UNION {[1..n -> SessionEdges] : n \in 0..MaxBatch}

NextSession ==
    \/ \E e \in SessionEdges, o \in CommitOutcomes : InsertEdge(e, TRUE, o)
    \/ \E e \in SessionEdges, o \in CommitOutcomes : RemoveEdge(e, o)
    \/ \E es \in SessionBatches, o \in CommitOutcomes : InsertEdges(es, o)
    \/ \E v \in Vertices, o \in CommitOutcomes : RemoveNode(v, o)
    \/ \E o \in CommitOutcomes : RemoveAll(o)

SpecSession == InitStore /\ [][NextSession]_vars

\* ---------------------------------------------------------------------
\* The benchmark session: main and P3Bench
\* ---------------------------------------------------------------------
\* The bench_task calls of bench_buffered_graph, in the order of the code,
\* by the function they time.
\* bench_buffered_graph with the write operations ahead of the reads.
OpSeq_WritesFirst ==
    <<"import_bulk", "remove_e", "upsert_e", "remove_es", "upsert_es",
      "find_e", "find_es_to", "find_es_related", "find_vs_related",
      "count_v_related", "count_v_followers", "remove_v", "remove_bulk">>

OpSeq == <<"import_bulk", "find_e", "find_es_to", "find_es_related",
           "find_vs_related", "count_v_related", "count_v_followers",
           "remove_e", "upsert_e", "remove_es", "upsert_es",
           "remove_v", "remove_bulk">>

\* The last bench_task of bench_buffered_graph(remove_all_afterwards).
LastOp(requested) == IF requested THEN Len(OpSeq) ELSE Len(OpSeq) - 2

SampleLists == {"edges_to_query", "nodes_to_query", "edges_to_change_by_one",
                "edges_to_change_batched", "nodes_to_change_by_one"}

\* The list of self.tasks an operation iterates over.
TaskList(name) ==
    IF name = "find_e" THEN "edges_to_query"
    ELSE IF name \in {"remove_e", "upsert_e"} THEN "edges_to_change_by_one"
    ELSE IF name \in {"remove_es", "upsert_es"} THEN "edges_to_change_batched"
    ELSE IF name = "remove_v" THEN "nodes_to_change_by_one"
    ELSE "nodes_to_query"

\* The key of a MicroBench counter: benchmark_name, database, dataset.
Key(name, b, d) == [op |-> name, db |-> b, ds |-> d]

Pairs == (1..NumDatasets) \X (1..NumBackends)

\* The datasets run() still visits after dataset d.
LaterEnabled(d) == {x \in 1..NumDatasets : x > d /\ enabled[x]}

MinOf(S) == CHOOSE x \in S : \A y \in S : x <= y

Bump(n, k) == IF n + k > MaxCalls THEN MaxCalls ELSE n + k

\* An exception leaves the try block of main for its finally.
Propagate ==
    /\ pc' = "finally"
    /\ exc' = TRUE

\* A new process: P0Config loads the measurement store from its file.
StartSession ==
    /\ pc \in {"idle", "exited"}
    /\ runs < MaxRuns
    /\ runs' = runs + 1
    /\ pc' = "test"
    /\ stats' = dumped
    /\ loaded' = dumped
    /\ calls' = 0
    /\ benched' = {}
    /\ exc' = FALSE
    /\ gdb' = "none"
    /\ step' = "start"
    /\ ds' = 1
    /\ db' = 1
    /\ op' = 1
    /\ trace' = <<>>
    /\ UNCHANGED <<in_memory, enabled, sample, repeat_existing, dumped,
                   remove_all_afterwards, counts>>
    /\ UNCHANGED <<storeVars, passVars, probeVars, queryVars, neoVars, importVars>>

\* P1Test().run(), P2Import().run() and P4Print().run(): each returns or raises.
OtherPhase ==
    /\ pc \in {"test", "import", "print"}
    /\ \E raises \in BOOLEAN :
        IF raises THEN Propagate
        ELSE /\ pc' = (IF pc = "test" THEN "import"
                       ELSE IF pc = "import" THEN "bench" ELSE "finally")
             /\ exc' = FALSE
    /\ UNCHANGED <<in_memory, enabled, sample, step, ds, db, op, gdb,
                   repeat_existing, stats, dumped, calls, loaded, runs, benched>>
    /\ UNCHANGED <<remove_all_afterwards, trace, counts>>
    /\ UNCHANGED <<storeVars, passVars, probeVars, queryVars, neoVars, importVars>>

\* P3Bench().run(repeat_existing): the first enabled dataset is sampled.
RunBegin ==
    /\ pc = "bench"
    /\ step = "start"
    /\ \E r \in BOOLEAN : repeat_existing' = r
    /\ IF LaterEnabled(0) = {}
       THEN /\ pc' = "print"
            /\ UNCHANGED <<step, ds>>
       ELSE /\ ds' = MinOf(LaterEnabled(0))
            /\ step' = "make_db"
            /\ UNCHANGED pc
    /\ UNCHANGED <<in_memory, enabled, sample, db, op, gdb, stats, dumped,
                   calls, loaded, runs, benched, exc>>
    /\ UNCHANGED <<remove_all_afterwards, trace, counts>>
    /\ UNCHANGED <<storeVars, passVars, probeVars, queryVars, neoVars, importVars>>

\* self.gdb = self.conf.make_db(database=db, dataset=dataset): a handle,
\* None, or an exception.
MakeDb ==
    /\ pc = "bench"
    /\ step = "make_db"
    /\ \E res \in {"handle", "none", "raise"} :
        IF res = "raise"
        THEN /\ Propagate
             /\ UNCHANGED <<gdb, step>>
        ELSE /\ gdb' = res
             /\ step' = "enter"
             /\ UNCHANGED <<pc, exc>>
    /\ UNCHANGED <<in_memory, enabled, sample, ds, db, op, repeat_existing,
                   stats, dumped, calls, loaded, runs, benched>>
    /\ UNCHANGED <<remove_all_afterwards, trace, counts>>
    /\ UNCHANGED <<storeVars, passVars, probeVars, queryVars, neoVars, importVars>>

\* The head of bench_buffered_graph(remove_all_afterwards): no handle, or
\* an empty backend that is not in memory, ends it; number_of_edges() is a
\* call on the handle. run() passes no argument (False); a caller of
\* bench_buffered_graph can pass True.
Enter ==
    /\ pc = "bench"
    /\ step = "enter"
    /\ benched' = benched \cup {<<ds, db>>}
    /\ trace' = <<>>
    /\ IF gdb = "none"
       THEN /\ step' = "dump"
            /\ UNCHANGED <<pc, exc, calls, op, remove_all_afterwards>>
       ELSE /\ calls' = Bump(calls, 1)
            /\ \E res \in {"empty", "edges", "raise"} :
                IF res = "raise"
                THEN /\ Propagate
                     /\ UNCHANGED <<step, op, remove_all_afterwards>>
                ELSE IF res = "empty" /\ ~in_memory[db]
                THEN /\ step' = "dump"
                     /\ UNCHANGED <<pc, exc, op, remove_all_afterwards>>
                ELSE /\ step' = "task"
                     /\ op' = (IF in_memory[db] THEN 1 ELSE 2)
                     /\ \E requested \in BOOLEAN : remove_all_afterwards' = requested
                     /\ UNCHANGED <<pc, exc>>
    /\ UNCHANGED <<in_memory, enabled, sample, ds, db, gdb, repeat_existing,
                   stats, dumped, loaded, runs, counts>>
    /\ UNCHANGED <<storeVars, passVars, probeVars, queryVars, neoVars, importVars>>

\* After a bench_task: the next one, or the end of bench_buffered_graph.
AfterTask ==
    IF op = LastOp(remove_all_afterwards) THEN step' = "dump" /\ op' = op
    ELSE step' = "task" /\ op' = op + 1

\* The measurement store with a record of n operations for k, written
\* whatever n is.
Recorded_AlsoZero(S, k, n) == S \cup {k}

\* The keys of the measurement store after counter.run() returned n for k:
\* a count of zero is not recorded.
Recorded(S, k, n) == IF n = 0 THEN S ELSE S \cup {k}

\* bench_task(name, func): skipped when measured and not repeated; else
\* counter.run() calls func, whose exception propagates. import_bulk reads
\* self.dataset_path, which is never set: AttributeError. remove_bulk
\* returns the number of edges clear() removed.
BenchTask ==
    /\ pc = "bench"
    /\ step = "task"
    /\ LET name == OpSeq[op]
           k == Key(name, db, ds)
       IN IF ~repeat_existing /\ k \in stats
          THEN /\ AfterTask
               /\ UNCHANGED <<pc, exc, stats, calls, trace, counts>>
          ELSE /\ trace' = Append(trace, name)
               /\ IF name = "import_bulk"
                  THEN /\ Propagate
                       /\ UNCHANGED <<step, op, stats, calls, counts>>
                  ELSE \E raises \in BOOLEAN, cleared \in 0..1 :
                        LET n == IF name = "remove_bulk" THEN cleared
                                 ELSE sample[TaskList(name)]
                            written == Recorded(stats, k, n)
                        IN /\ name # "remove_bulk" => cleared = 0
                           /\ IF raises /\ (n > 0 \/ name = "remove_bulk")
                              THEN /\ Propagate
                                   /\ calls' = Bump(calls, 1)
                                   /\ UNCHANGED <<step, op, stats, counts>>
                              ELSE /\ AfterTask
                                   /\ calls' = Bump(calls, IF name = "remove_bulk"
                                                           THEN 3 ELSE n)
                                   /\ stats' = written
                                   /\ counts' =
                                        IF n = 0 /\ written = stats THEN counts
                                        ELSE [x \in DOMAIN counts \cup {k} |->
                                                IF x = k THEN n ELSE counts[x]]
                                   /\ UNCHANGED <<pc, exc>>
    /\ UNCHANGED <<in_memory, enabled, sample, ds, db, gdb, repeat_existing,
                   dumped, loaded, runs, benched, remove_all_afterwards>>
    /\ UNCHANGED <<storeVars, passVars, probeVars, queryVars, neoVars, importVars>>

\* self.conf.default_stats_file.dump_to_file() after each pair, then the
\* next backend, the next enabled dataset, or the end of run().
DumpPair ==
    /\ pc = "bench"
    /\ step = "dump"
    /\ dumped' = stats
    /\ IF db < NumBackends
       THEN /\ db' = db + 1
            /\ step' = "make_db"
            /\ UNCHANGED <<pc, ds>>
       ELSE IF LaterEnabled(ds) # {}
       THEN /\ ds' = MinOf(LaterEnabled(ds))
            /\ db' = 1
            /\ step' = "make_db"
            /\ UNCHANGED pc
       ELSE /\ pc' = "print"
            /\ UNCHANGED <<step, ds, db>>
    /\ UNCHANGED <<in_memory, enabled, sample, op, gdb, repeat_existing,
                   stats, calls, loaded, runs, benched, exc>>
    /\ UNCHANGED <<remove_all_afterwards, trace, counts>>
    /\ UNCHANGED <<storeVars, passVars, probeVars, queryVars, neoVars, importVars>>

\* main dumping only after a session without exception (no finally).
Finally_OnlyOnSuccess ==
    /\ pc = "finally"
    /\ dumped' = (IF exc THEN dumped ELSE stats)
    /\ pc' = "exited"
    /\ UNCHANGED <<in_memory, enabled, sample, step, ds, db, op, gdb,
                   repeat_existing, stats, calls, loaded, runs, benched, exc>>
    /\ UNCHANGED <<remove_all_afterwards, trace, counts>>
    /\ UNCHANGED <<storeVars, passVars, probeVars, queryVars, neoVars, importVars>>

\* finally: P0Config.stats.dump_to_file(), then the process ends.
Finally ==
    /\ pc = "finally"
    /\ dumped' = stats
    /\ pc' = "exited"
    /\ UNCHANGED <<in_memory, enabled, sample, step, ds, db, op, gdb,
                   repeat_existing, stats, calls, loaded, runs, benched, exc>>
    /\ UNCHANGED <<remove_all_afterwards, trace, counts>>
    /\ UNCHANGED <<storeVars, passVars, probeVars, queryVars, neoVars, importVars>>

\* ---------------------------------------------------------------------
\* SpecRunner
\* ---------------------------------------------------------------------
InitRunner ==
    /\ InitTable
    /\ InitPassIdle
    /\ InitProbeIdle
    /\ InitQueryIdle
    /\ InitNeoIdle
    /\ InitImportIdle
    /\ in_memory \in [1..NumBackends -> BOOLEAN]
    /\ enabled \in [1..NumDatasets -> BOOLEAN]
    /\ sample \in [SampleLists -> 0..MaxSample]
    /\ pc = "idle"
    /\ step = "start"
    /\ ds = 1
    /\ db = 1
    /\ op = 1
    /\ gdb = "none"
    /\ repeat_existing = FALSE
    /\ stats = {}
    /\ dumped = {}
    /\ loaded = {}
    /\ calls = 0
    /\ runs = 0
    /\ benched = {}
    /\ exc = FALSE
    /\ remove_all_afterwards = FALSE
    /\ trace = <<>>
    /\ counts = <<>>

NextRunner ==
    \/ StartSession
    \/ OtherPhase
    \/ RunBegin
    \/ MakeDb
    \/ Enter
    \/ BenchTask
    \/ DumpPair
    \/ Finally

SpecRunner == InitRunner /\ [][NextRunner]_vars

\* ---------------------------------------------------------------------
\* SpecWrites: the four write operations of P3Bench on one backend
\* ---------------------------------------------------------------------
\* GraphBase.remove_edges(es): remove_edge for each e, in order.
RECURSIVE RemoveEdgesTable(_, _)
RemoveEdgesTable(T, es) ==
    IF es = <<>> THEN T
    ELSE RemoveEdgesTable(RemoveEdgeTable(T, Head(es)), Tail(es))

\* remove_e: self.gdb.remove(e) for each e of edges_to_change_by_one.
RemoveOneByOne(T, es) == RemoveEdgesTable(T, es)

\* upsert_e: self.gdb.add(e) for each e of edges_to_change_by_one.
RECURSIVE UpsertOneByOne(_, _)
UpsertOneByOne(T, es) ==
    IF es = <<>> THEN T
    ELSE UpsertOneByOne(InsertEdgeTable(T, Head(es), TRUE), Tail(es))

\* remove_es: self.gdb.remove(es) for each batch of edges_to_change_batched.
RECURSIVE RemoveBatches(_, _)
RemoveBatches(T, bs) ==
    IF bs = <<>> THEN T
    ELSE RemoveBatches(RemoveEdgesTable(T, Head(bs)), Tail(bs))

\* upsert_es: self.gdb.add(es) for each batch of edges_to_change_batched.
RECURSIVE UpsertBatches(_, _)
UpsertBatches(T, bs) ==
    IF bs = <<>> THEN T
    ELSE UpsertBatches(AddAll(T, Head(bs)), Tail(bs))

\* The stored (v_from, v_to, weight) edges of a table, with multiplicity.
Stored(T) ==
    [x \in Vertices \X Vertices \X Weights |->
        Cardinality({r \in T : <<r.v_from, r.v_to, r.weight>> = x})]

RECURSIVE Flatten(_)
Flatten(bs) == IF bs = <<>> THEN <<>> ELSE Head(bs) \o Flatten(Tail(bs))

Distinct(es) == \A i, j \in 1..Len(es) : es[i] = es[j] => i = j

\* The samples the task sampler can hand out for the imported dataset:
\* edges that are stored, none of them twice in a list.
Samplable(T, es) ==
    /\ Distinct(es)
    /\ \A i \in 1..Len(es) : Stored(T)[<<es[i].v_from, es[i].v_to, es[i].weight>>] > 0

OneByOneSamples == UNION {[1..n -> BatchEdges] : n \in 0..MaxSample}

BatchedSamples ==
    UNION {[1..n -> (Batches \ {<<>>})] : n \in 0..MaxSample}

\* The dataset is imported into the backend, a chunk at a time.
Populate(es) ==
    /\ wpc = "populate"
    /\ InsertEdges(es, "ok")

\* The sampler has read the dataset; the write operations begin.
StartPass(one, bat) ==
    /\ wpc = "populate"
    /\ Samplable(rows, one)
    /\ Samplable(rows, Flatten(bat))
    /\ wpc' = "remove_e"
    /\ before' = rows
    /\ by_one' = one
    /\ batched' = bat
    /\ UNCHANGED <<storeVars, runnerVars, probeVars, queryVars, neoVars, importVars>>

\* One bench_task of the pass: its function applied to the backend.
WriteTask ==
    /\ wpc \in {"remove_e", "upsert_e", "remove_es", "upsert_es"}
    /\ rows' = (IF wpc = "remove_e" THEN RemoveOneByOne(rows, by_one)
                ELSE IF wpc = "upsert_e" THEN UpsertOneByOne(rows, by_one)
                ELSE IF wpc = "remove_es" THEN RemoveBatches(rows, batched)
                ELSE UpsertBatches(rows, batched))
    /\ committed' = rows'
    /\ wpc' = (IF wpc = "remove_e" THEN "upsert_e"
               ELSE IF wpc = "upsert_e" THEN "remove_es"
               ELSE IF wpc = "remove_es" THEN "upsert_es"
               ELSE "done")
    /\ UNCHANGED <<failures, last, rt, unreported, before, by_one, batched>>
    /\ UNCHANGED <<runnerVars, probeVars, queryVars, neoVars, importVars>>

NextWrites ==
    \/ \E es \in Batches : Populate(es)
    \/ \E one \in OneByOneSamples, bat \in BatchedSamples : StartPass(one, bat)
    \/ WriteTask

SpecWrites == InitStore /\ [][NextWrites]_vars

\* ---------------------------------------------------------------------
\* SpecProbe: the loop of one operation function of P3Bench
\* ---------------------------------------------------------------------
\* The functions whose loop compares dt with the budget after each item.
TimeBoxed == {"find_e", "find_es_related", "find_es_from", "find_es_to",
              "find_vs_related", "count_v_related", "count_v_followers",
              "count_v_following", "find_vs_related_related"}

\* The functions whose loop has no such comparison.
Unboxed == {"remove_e", "upsert_e", "remove_es", "upsert_es", "remove_v"}

\* The functions that add to cnt_found.
Finding == {"find_e", "find_es_related", "find_es_from", "find_es_to",
            "find_vs_related", "find_vs_related_related"}

\* The time one call on the backend can take.
CallSeconds == {k * TickSeconds : k \in 0..MaxTicks}

\* A budget check that never fires.
OverBudget_Never(d) == d < 0

\* if dt > self.max_seconds_per_query: break
OverBudget(d) == d > max_seconds_per_query

\* The function is called: cnt = 0, cnt_found = 0, t0 = time().
ProbeCall(name) ==
    /\ ppc \in {"idle", "returned", "raised"}
    /\ pname' = name
    /\ ppc' = "loop"
    /\ item' = 1
    /\ cnt' = 0
    /\ cnt_found' = 0
    /\ dt' = 0
    /\ over' = 0
    /\ UNCHANGED <<storeVars, runnerVars, passVars, queryVars, neoVars, importVars>>

\* One iteration: the call on the backend returns after d seconds or
\* raises; cnt and cnt_found are added to; dt is read and compared.
ProbeItem ==
    /\ ppc = "loop"
    /\ \E raises \in BOOLEAN, d \in CallSeconds, found \in 0..1, len \in 1..MaxBatch :
        /\ (pname \notin Finding) => found = 0
        /\ (pname \notin {"remove_es", "upsert_es"}) => len = 1
        /\ IF raises
           THEN /\ ppc' = "raised"
                /\ UNCHANGED <<item, cnt, cnt_found, dt, over>>
           ELSE /\ cnt' = cnt + len
                /\ cnt_found' = cnt_found + found
                /\ dt' = dt + d
                /\ over' = (IF over = 0 /\ dt' > max_seconds_per_query
                            THEN item ELSE over)
                /\ IF (pname \in TimeBoxed /\ OverBudget(dt')) \/ item = ProbeItems
                   THEN ppc' = "returned" /\ item' = item
                   ELSE ppc' = "loop" /\ item' = item + 1
    /\ UNCHANGED pname
    /\ UNCHANGED <<storeVars, runnerVars, passVars, queryVars, neoVars, importVars>>

NextProbe ==
    \/ \E name \in TimeBoxed \cup Unboxed : ProbeCall(name)
    \/ ProbeItem

SpecProbe == InitStore /\ [][NextProbe]_vars

\* ---------------------------------------------------------------------
\* Claims about the adapter
\* ---------------------------------------------------------------------
\* C1: after insert_edge of a directed edge (a,b), find_edge(a,b) matches and
\* find_edge(b,a) returns none unless an edge (b,a) is stored; after
\* insert_edge of an undirected edge (a,b), find_edge matches in both
\* directions.
C1_FindEdgeFollowsDirection ==
    (last.op = "insert_edge" /\ last.ret = RetNone) =>
        LET a == last.e.v_from
            b == last.e.v_to
        IN /\ find_edge(rows, a, b) # NoRow
           /\ (last.e.directed /\ ~(\E r \in rows : r.v_from = b /\ r.v_to = a))
                 => find_edge(rows, b, a) = NoRow
           /\ (~last.e.directed) => find_edge(rows, b, a) # NoRow

C3_RemoveEdgeRemovesAtMostOne ==
    [][(last'.op = "remove_edge" /\ ~HasId(last'.e) /\ last'.ret = RetNone) =>
          /\ rows' \subseteq rows
          /\ Cardinality(rows \ rows') <= 1
          /\ \A r \in rows \ rows' :
                r.v_from = last'.e.v_from /\ r.v_to = last'.e.v_to]_vars

\* C4: for every vertex v, count_related(v) is the number of edges of
\* edges_related(v) and the sum of their weights.
C4_CountRelatedMatchesEdgesRelated ==
    \A v \in Vertices :
        count_related(rows, v) =
            <<Cardinality(edges_related(rows, v)), SumWeights(edges_related(rows, v))>>

\* C10: no edge of an insert_edges call that failed at commit and returned 0
\* is in the stored table, neither right after the call nor after a later
\* commit of the same session.
C10_FailedBatchIsNotStored ==
    unreported \cap RowIds(committed) = {}

\* ---------------------------------------------------------------------
\* Claims about the benchmark session
\* ---------------------------------------------------------------------
\* Every operation a pair can be asked for was in the measurement store's
\* file when the session began.
AllMeasured ==
    \A d \in 1..NumDatasets, b \in 1..NumBackends, i \in 2..Len(OpSeq) :
        Key(OpSeq[i], b, d) \in loaded

\* C5: in a second run with repeat_existing false, on pairs whose
\* operations were all measured by the first run, no call is made on a
\* backend handle.
C5_SecondRunMakesNoBackendCall ==
    (runs = 2 /\ pc \in {"bench", "print", "finally", "exited"}
              /\ step # "start" /\ ~repeat_existing /\ AllMeasured)
        => calls = 0

\* C8: when the process exits, also after an exception in any phase, the
\* measurement store's file holds every measurement recorded in the session.
C8_ExitDumpsEveryMeasurement ==
    pc = "exited" => stats \subseteq dumped

\* The first session ended by an exception inside a bench_task, after a
\* measurement of the same pair had been recorded.
C8_Witness ==
    /\ pc = "exited"
    /\ exc
    /\ runs = 1
    /\ step = "task"
    /\ \E k \in stats : k.db = db /\ k.ds = ds

\* C9: when a backend fails for one pair (make_db or a call on the handle
\* raises), the session still benchmarks every other enabled pair and ends
\* with the measurements dumped.
C9_FailedBackendDoesNotStopTheOthers ==
    (pc = "exited" /\ exc /\ step \in {"make_db", "enter", "task"}) =>
        /\ \A d \in 1..NumDatasets, b \in 1..NumBackends :
                enabled[d] => <<d, b>> \in benched
        /\ stats \subseteq dumped

\* C7: after remove edge, upsert edge, remove-edge-batch and
\* upsert-edge-batch on the sampled edges, the stored (v_from, v_to, weight)
\* edges and count_edges() are those from before the pass.
C7_WritePassRestoresTheEdges ==
    wpc = "done" =>
        /\ Stored(rows) = Stored(before)
        /\ count_edges(rows) = count_edges(before)

\* C6: when the budget is exceeded during an item of a probing operation
\* over ProbeItems items, the loop attempts no further item and returns a
\* count c with 0 < c < ProbeItems.
C6_BudgetStopsBelowSampleSize ==
    (pname \in TimeBoxed /\ over > 0) =>
        /\ ppc = "returned"
        /\ cnt = over
        /\ 0 < cnt /\ cnt < ProbeItems

\* C6 (amended): when the budget is exceeded during an item of a probing
\* operation over ProbeItems items, the loop attempts no further item and
\* returns the index c of that item, 0 < c <= ProbeItems.
C6_BudgetStopsAtTheItem ==
    (pname \in TimeBoxed /\ over > 0) =>
        /\ ppc = "returned"
        /\ cnt = over
        /\ 0 < cnt /\ cnt <= ProbeItems

\* The budget was exceeded during the last item of find_e.
C6_Witness ==
    /\ pname = "find_e"
    /\ ppc = "returned"
    /\ over = ProbeItems
    /\ cnt = ProbeItems

\* ---------------------------------------------------------------------
\* Claims about insert_edge and the neighbourhood queries
\* ---------------------------------------------------------------------
\* The stored edges that have the id or the (v_from, v_to) of e.
SameEdge(T, e) ==
    {r \in T : \/ (HasId(e) /\ r.id = e.id)
               \/ (r.v_from = e.v_from /\ r.v_to = e.v_to)}

\* C11: insert_edge(e) with the uniqueness check, when an edge with the id
\* or the (v_from, v_to) of e is stored, leaves the number of stored edges
\* unchanged and gives an existing edge the weight of e; without the check
\* it adds exactly one stored edge.
C11_UpsertUpdatesInsteadOfDuplicating ==
    [][(last'.op = "insert_edge") =>
          IF last'.chk
          THEN (SameEdge(rows, last'.e) # {}) =>
                  /\ Cardinality(rows') = Cardinality(rows)
                  /\ \E r \in SameEdge(rows, last'.e) :
                        [r EXCEPT !.weight = last'.e.weight] \in rows'
          ELSE Cardinality(rows') = Cardinality(rows) + 1]_vars

\* ---------------------------------------------------------------------
\* SpecQueries: the neighbourhood queries on a stored graph
\* ---------------------------------------------------------------------
MaxNode == 3
MaxGraphEdges == 3

Nodes == 1..MaxNode

\* The graphs a backend can hold after an import: a list of edges,
\* duplicates and loops included.
GraphDumps == UNION {[1..n -> Nodes \X Nodes] : n \in 0..MaxGraphEdges}

\* The table after the import of a dump into an empty backend.
Imported(g) ==
    {[id |-> i, v_from |-> g[i][1], v_to |-> g[i][2], weight |-> 1] : i \in 1..Len(g)}

\* GraphBase.nodes_related(v)
nodes_related(T, v) ==
    ({r.v_from : r \in edges_related(T, v)} \cup {r.v_to : r \in edges_related(T, v)})
        \ {v}

\* GraphBase.nodes_related_to_group(vs)
GraphBase_nodes_related_to_group(T, vs) ==
    (UNION {nodes_related(T, v) : v \in vs}) \ vs

\* PlainSQL.nodes_related_to_group adding both ends of every edge found.
nodes_related_to_group_BothEnds(T, vs) ==
    LET edges == {r \in T : r.v_from \in vs \/ r.v_to \in vs}
    IN {r.v_from : r \in edges} \cup {r.v_to : r \in edges}

\* PlainSQL.nodes_related_to_group(vs)
nodes_related_to_group(T, vs) ==
    LET edges == {r \in T : r.v_from \in vs \/ r.v_to \in vs}
    IN {r.v_from : r \in {e \in edges : e.v_from \notin vs}}
         \cup {r.v_to : r \in {e \in edges : e.v_from \in vs /\ e.v_to \notin vs}}

\* The matches <<relationship, v1, v2>> of the Cypher pattern
\* (v1:VERTEX)-[:EDGE]-(v2:VERTEX): each relationship in both directions.
Matches(T) ==
    {<<r.id, r.v_from, r.v_to>> : r \in T} \cup {<<r.id, r.v_to, r.v_from>> : r \in T}

\* Neo4j.nodes_related_to_group(vs)
Neo4j_nodes_related_to_group(T, vs) ==
    {m[3] : m \in {x \in Matches(T) : x[2] \in vs /\ x[3] \notin vs}}

\* GraphBase.nodes_related_to_related(v, include_related), as inherited by
\* PlainSQL: self.nodes_related_to_group is the adapter's.
nodes_related_to_related(T, v, include_related) ==
    LET related == nodes_related(T, v)
        related_to_related == nodes_related_to_group(T, related \cup {v})
    IN IF include_related
       THEN (related_to_related \cup related) \ {v}
       ELSE (related_to_related \ related) \ {v}

\* Neo4j.nodes_related_to_related(v, include_related): the two
\* relationships of one MATCH pattern are different relationships.
Neo4j_nodes_related_to_related(T, v, include_related) ==
    LET paths == {p \in Matches(T) \X Matches(T) :
                     /\ p[1][2] = v
                     /\ p[1][3] = p[2][2]
                     /\ p[1][1] # p[2][1]
                     /\ p[2][3] # v
                     /\ include_related
                          \/ ~(\E m \in Matches(T) : m[2] = v /\ m[3] = p[2][3])}
    IN {p[2][3] : p \in paths}

Adapters == {"PlainSQL", "GraphBase", "Neo4j"}

\* A dump is imported into an empty backend.
InitQueries ==
    /\ InitRunnerIdle
    /\ InitPassIdle
    /\ InitProbeIdle
    /\ InitQueryIdle
    /\ InitNeoIdle
    /\ InitImportIdle
    /\ \E g \in GraphDumps : rows = Imported(g)
    /\ committed = rows
    /\ failures = 0
    /\ last = [op |-> "init", e |-> NoEdge, chk |-> FALSE, ret |-> RetNone]
    /\ rt = 0
    /\ unreported = {}

\* nodes_related_to_group(vs) of one of the adapters.
AskGroup(impl, vs) ==
    /\ answer' = [fn |-> "nodes_related_to_group", impl |-> impl, vs |-> vs,
                  v |-> 0, include_related |-> FALSE,
                  ret |-> IF impl = "PlainSQL" THEN nodes_related_to_group(rows, vs)
                          ELSE IF impl = "GraphBase"
                          THEN GraphBase_nodes_related_to_group(rows, vs)
                          ELSE Neo4j_nodes_related_to_group(rows, vs)]
    /\ UNCHANGED <<storeVars, runnerVars, passVars, probeVars, neoVars, importVars>>

\* nodes_related_to_related(v, include_related) of one of the adapters.
AskRelatedToRelated(impl, v, include_related) ==
    /\ answer' = [fn |-> "nodes_related_to_related", impl |-> impl, vs |-> {},
                  v |-> v, include_related |-> include_related,
                  ret |-> IF impl = "Neo4j"
                          THEN Neo4j_nodes_related_to_related(rows, v, include_related)
                          ELSE nodes_related_to_related(rows, v, include_related)]
    /\ UNCHANGED <<storeVars, runnerVars, passVars, probeVars, neoVars, importVars>>

NextQueries ==
    \/ \E impl \in Adapters, vs \in SUBSET Nodes : AskGroup(impl, vs)
    \/ \E impl \in {"PlainSQL", "Neo4j"}, v \in Nodes, inc \in BOOLEAN :
            AskRelatedToRelated(impl, v, inc)

SpecQueries == InitQueries /\ [][NextQueries]_vars

\* C12: for every non-empty group vs, nodes_related_to_group(vs) contains
\* no member of vs.
C12_GroupExcludesItsMembers ==
    (answer.fn = "nodes_related_to_group" /\ answer.vs # {}) =>
        answer.ret \cap answer.vs = {}

\* The group has a vertex related to it and an edge between two of its
\* members.
C12_Witness ==
    /\ answer.fn = "nodes_related_to_group"
    /\ answer.impl = "PlainSQL"
    /\ answer.ret # {}
    /\ \E r \in rows : r.v_from \in answer.vs /\ r.v_to \in answer.vs
                          /\ r.v_from # r.v_to

\* The vertices that share an edge with v, v excepted.
OneHop(T, v) ==
    {u \in Nodes \ {v} : \E r \in T : \/ (r.v_from = v /\ r.v_to = u)
                                      \/ (r.v_from = u /\ r.v_to = v)}

\* The vertices that share an edge with a 1-hop neighbour of v.
NextToOneHop(T, v) ==
    {u \in Nodes : \E x \in OneHop(T, v), r \in T :
                        \/ (r.v_from = x /\ r.v_to = u)
                        \/ (r.v_from = u /\ r.v_to = x)}

\* C13: nodes_related_to_related(v, include_related) never contains v;
\* with include_related false it is exactly the vertices adjacent to a
\* 1-hop neighbour of v that are neither v nor a 1-hop neighbour; with
\* include_related true it holds every 1-hop neighbour of v in addition.
C13_TwoHopNeighbourhood ==
    (answer.fn = "nodes_related_to_related") =>
        LET one == OneHop(rows, answer.v)
            far == (NextToOneHop(rows, answer.v) \ one) \ {answer.v}
        IN /\ answer.v \notin answer.ret
           /\ answer.ret = IF answer.include_related THEN far \cup one ELSE far

\* ---------------------------------------------------------------------
\* SpecNeo4j: two Neo4j adapters opened on one server
\* ---------------------------------------------------------------------
MaxNameLen == 2
MaxRels == 2

\* The characters Neo4j.__init__ keeps of the database name.
KeptChars ==
    {"q", "w", "e", "r", "t", "y", "u", "i", "o", "p", "a", "s", "d", "f", "g",
     "h", "j", "k", "l", "z", "x", "c", "v", "b", "n", "m"}
    \cup {"Q", "W", "E", "R", "T", "Y", "U", "I", "O", "P", "A", "F", "G", "H",
          "J", "K", "L", "Z", "X", "C", "V", "B", "N", "M"}
    \cup {"1", "2", "3", "4", "5", "6", "7", "8", "9", "0"}

\* The characters the database names of the urls are made of here.
NameChars == {"g", "S"}

\* extract_database_name(url) of the urls the adapters are opened with.
DatabaseNames == UNION {[1..n -> NameChars] : n \in 1..MaxNameLen}

\* name: the kept characters of the database name, in order.
Resolved(a) == SelectSeq(names[a], LAMBDA c : c \in KeptChars)

\* self._v and self._e
VertexLabel(a) == <<"v">> \o Resolved(a)

EdgeType(a) == <<"e">> \o Resolved(a)

\* session.run(...) handed back as it is: a statement result, not a count.
StatementResult == 0 - 3

RetTrue == 1

\* The edges handed to a Neo4j adapter: `_id` is formatted with %d.
NeoEdges == {e \in Edge : e.id = 1 /\ e.weight = 1}

NeoBatches == UNION {[1..n -> NeoEdges] : n \in 0..MaxBatch}

FreshRel(R) ==
    CHOOSE n \in 1..(MaxRels + MaxBatch) :
        /\ n \notin {r.n : r \in R}
        /\ \A m \in 1..(MaxRels + MaxBatch) : m \notin {r.n : r \in R} => n <= m

\* CREATE (v1)-[:EDGE {_id, weight}]->(v2) for each e of es, in order.
RECURSIVE CreateAll(_, _, _)
CreateAll(R, a, es) ==
    IF es = <<>> THEN R
    ELSE LET e == Head(es)
             r == [n |-> FreshRel(R), type |-> EdgeType(a), label |-> VertexLabel(a),
                   v1 |-> e.v_from, v2 |-> e.v_to, weight |-> e.weight, id |-> e.id]
         IN CreateAll(R \cup {r}, a, Tail(es))

\* MERGE (v:VERTEX {_id: v}) for both ends of each e of es.
Merged(N, a, es) ==
    N \cup {[label |-> VertexLabel(a), id |-> es[i].v_from] : i \in 1..Len(es)}
      \cup {[label |-> VertexLabel(a), id |-> es[i].v_to] : i \in 1..Len(es)}

\* What an adapter reads: the nodes under its label and the relationships
\* of its type.
View(a) ==
    [nodes |-> {x.id : x \in {y \in nodes : y.label = VertexLabel(a)}},
     edges |-> {r \in rels : r.type = EdgeType(a)}]

\* The relationships attached to the nodes (label l, id v), all v when
\* v = 0.
Attached(l, v) ==
    {r \in rels : r.label = l /\ (v = 0 \/ r.v1 = v \/ r.v2 = v)}

\* Neo4j.insert_edges(es): one statement; CREATE takes directed
\* relationships only, so an undirected edge makes the statement fail.
NeoInsertEdges(a, es) ==
    /\ Cardinality(rels) + Len(es) <= MaxRels
    /\ IF \E i \in 1..Len(es) : ~es[i].directed
       THEN /\ neo_last' = [adapter |-> a, op |-> "insert_edges", v |-> 0,
                            ret |-> Raised]
            /\ UNCHANGED <<nodes, rels>>
       ELSE /\ nodes' = Merged(nodes, a, es)
            /\ rels' = CreateAll(rels, a, es)
            /\ neo_last' = [adapter |-> a, op |-> "insert_edges", v |-> 0,
                            ret |-> Len(es)]
    /\ UNCHANGED names
    /\ UNCHANGED <<storeVars, runnerVars, passVars, probeVars, queryVars, importVars>>

\* Neo4j.insert_edge(e)
NeoInsertEdge(a, e) ==
    /\ Cardinality(rels) + 1 <= MaxRels
    /\ IF ~e.directed
       THEN /\ neo_last' = [adapter |-> a, op |-> "insert_edge", v |-> 0,
                            ret |-> Raised]
            /\ UNCHANGED <<nodes, rels>>
       ELSE /\ nodes' = Merged(nodes, a, <<e>>)
            /\ rels' = CreateAll(rels, a, <<e>>)
            /\ neo_last' = [adapter |-> a, op |-> "insert_edge", v |-> 0,
                            ret |-> RetTrue]
    /\ UNCHANGED names
    /\ UNCHANGED <<storeVars, runnerVars, passVars, probeVars, queryVars, importVars>>

\* Neo4j.remove_edge(e): DELETE of every relationship the pattern matches,
\* in both directions for an undirected e.
NeoRemoveEdge(a, e) ==
    /\ rels' = {r \in rels :
                  ~(/\ r.type = EdgeType(a)
                    /\ r.label = VertexLabel(a)
                    /\ HasId(e) => r.id = e.id
                    /\ \/ (r.v1 = e.v_from /\ r.v2 = e.v_to)
                       \/ (~e.directed /\ r.v1 = e.v_to /\ r.v2 = e.v_from))}
    /\ neo_last' = [adapter |-> a, op |-> "remove_edge", v |-> 0, ret |-> RetTrue]
    /\ UNCHANGED <<names, nodes>>
    /\ UNCHANGED <<storeVars, runnerVars, passVars, probeVars, queryVars, importVars>>

\* Neo4j.remove_node(v): MATCH (v:VERTEX {_id: v}) DETACH DELETE v
NeoRemoveNode(a, v) ==
    /\ nodes' = nodes \ {[label |-> VertexLabel(a), id |-> v]}
    /\ rels' = IF [label |-> VertexLabel(a), id |-> v] \in nodes
               THEN rels \ Attached(VertexLabel(a), v) ELSE rels
    /\ neo_last' = [adapter |-> a, op |-> "remove_node", v |-> v,
                    ret |-> StatementResult]
    /\ UNCHANGED names
    /\ UNCHANGED <<storeVars, runnerVars, passVars, probeVars, queryVars, importVars>>

\* Neo4j.remove_all(): MATCH (v:VERTEX) DETACH DELETE v; no index and no
\* constraint exists to drop.
NeoRemoveAll(a) ==
    /\ nodes' = {x \in nodes : x.label # VertexLabel(a)}
    /\ rels' = rels \ Attached(VertexLabel(a), 0)
    /\ neo_last' = [adapter |-> a, op |-> "remove_all", v |-> 0, ret |-> RetNone]
    /\ UNCHANGED names
    /\ UNCHANGED <<storeVars, runnerVars, passVars, probeVars, queryVars, importVars>>

\* Two adapters are opened on one server, with different database names.
InitNeo4j ==
    /\ InitTable
    /\ InitRunnerIdle
    /\ InitPassIdle
    /\ InitProbeIdle
    /\ InitQueryIdle
    /\ InitImportIdle
    /\ names \in {p \in DatabaseNames \X DatabaseNames : p[1] # p[2]}
    /\ nodes = {}
    /\ rels = {}
    /\ neo_last = [adapter |-> 0, op |-> "init", v |-> 0, ret |-> RetNone]

NextNeo4j ==
    \/ \E a \in 1..2, e \in NeoEdges : NeoInsertEdge(a, e)
    \/ \E a \in 1..2, es \in NeoBatches : NeoInsertEdges(a, es)
    \/ \E a \in 1..2, e \in NeoEdges : NeoRemoveEdge(a, e)
    \/ \E a \in 1..2, v \in Vertices : NeoRemoveNode(a, v)
    \/ \E a \in 1..2 : NeoRemoveAll(a)

SpecNeo4j == InitNeo4j /\ [][NextNeo4j]_vars

\* C14: remove_node(v) removes every stored edge that has v as v_from or
\* v_to and no other edge, returns the number of edges it removed, and
\* leaves no edge related to v.
C14_RemoveNodeRemovesAndCounts ==
    [][(neo_last'.op = "remove_node") =>
          LET a == neo_last'.adapter
              v == neo_last'.v
              touching == {r \in View(a).edges : r.v1 = v \/ r.v2 = v}
          IN /\ rels' = rels \ touching
             /\ neo_last'.ret = Cardinality(touching)
             /\ ~(\E r \in rels' : r.type = EdgeType(a) /\ (r.v1 = v \/ r.v2 = v))]_vars

\* C15: a call through one adapter leaves the nodes and edges read by the
\* adapter opened with the other database name as they were.
C15_NamespacesAreIsolated ==
    [][\A b \in 1..2 :
          (neo_last'.adapter # b /\ names[1] # names[2]) => View(b)' = View(b)]_vars

\* ---------------------------------------------------------------------
\* SpecImport: GraphBase.insert_dump_parallel
\* ---------------------------------------------------------------------
MaxFileEdges == 6
MaxThreads == 3
MaxBatchPerThread == 3

\* chunk_len = thread_count * batch_per_thread
chunk_len == thread_count * batch_per_thread

\* insert_dump_parallel(filepath, thread_count, batch_per_thread) on a
\* file of n edges: the pool is made, the loop over the chunks begins.
InsertDumpParallel(n, t, b) ==
    /\ ipc \in {"idle", "returned", "raised"}
    /\ ipc' = "read"
    /\ thread_count' = t
    /\ batch_per_thread' = b
    /\ remaining' = n
    /\ es_len' = 0
    /\ chunks_read' = 0
    /\ chunks_done' = 0
    /\ in_flight' = 0
    /\ file_len' = n
    /\ inserted' = 0
    /\ UNCHANGED <<storeVars, runnerVars, passVars, probeVars, queryVars, neoVars>>

\* for es in chunks(yield_edges_from(filepath), chunk_len): the next chunk,
\* or the end of the loop and of the with block.
ReadChunk ==
    /\ ipc = "read"
    /\ IF remaining = 0
       THEN /\ ipc' = "returned"
            /\ UNCHANGED <<es_len, remaining, chunks_read>>
       ELSE /\ es_len' = (IF remaining < chunk_len THEN remaining ELSE chunk_len)
            /\ remaining' = remaining - es_len'
            /\ chunks_read' = chunks_read + 1
            /\ ipc' = "split"
    /\ UNCHANGED <<thread_count, batch_per_thread, chunks_done, in_flight,
                   file_len, inserted>>
    /\ UNCHANGED <<storeVars, runnerVars, passVars, probeVars, queryVars, neoVars>>

\* count_per_thread = len(es) / thread_count is a float, whatever len(es);
\* range(0, len(es), count_per_thread) raises TypeError before any slice is
\* taken and before executor.map is reached. The with block shuts the
\* pool down, with no task in it, and the exception leaves the function.
SplitChunk ==
    /\ ipc = "split"
    /\ ipc' = "raised"
    /\ UNCHANGED <<thread_count, batch_per_thread, remaining, es_len, chunks_read,
                   chunks_done, in_flight, file_len, inserted>>
    /\ UNCHANGED <<storeVars, runnerVars, passVars, probeVars, queryVars, neoVars>>

NextImport ==
    \/ \E n \in 0..MaxFileEdges, t \in 1..MaxThreads, b \in 1..MaxBatchPerThread :
            InsertDumpParallel(n, t, b)
    \/ ReadChunk
    \/ SplitChunk

SpecImport == InitStore /\ [][NextImport]_vars

\* C16: a chunk is read only when the insert_edges calls of the chunk
\* before it have all finished, at most one chunk of edges is in flight,
\* and this goes for every chunk of the file: when the call ends, each
\* chunk has been read and its insert_edges calls have finished.
C16_PoolDrainedBetweenChunks ==
    /\ chunks_read <= chunks_done + 1
    /\ in_flight <= chunk_len
    /\ (ipc \in {"returned", "raised"}) =>
          /\ ipc = "returned"
          /\ remaining = 0
          /\ chunks_done = chunks_read

\* ---------------------------------------------------------------------
\* Claims about the operations of the runner
\* ---------------------------------------------------------------------
\* C17: every operation of the runner's sequence, the write operations
\* included, stops once the budget is exceeded: it returns after the item
\* during which dt went over max_seconds_per_query and attempts no other.
C17_EveryOperationStopsAtTheBudget ==
    (pname \in {OpSeq[i] : i \in 1..Len(OpSeq)} /\ over > 0) =>
        /\ ppc = "returned"
        /\ item = over

\* C18: when a call on the backend raises inside an operation, the runner
\* recovers locally: the exception does not leave the benchmark phase, no
\* measurement is written for the operation, and the next operation of the
\* same pair follows.
C18_QueryFailureIsRecoveredLocally ==
    (exc /\ step = "task" /\ OpSeq[op] # "import_bulk") =>
        /\ pc = "bench"
        /\ Key(OpSeq[op], db, ds) \notin stats

Phase(name) ==
    IF name = "import_bulk" THEN 1
    ELSE IF name \in {"find_e", "find_es_to", "find_es_related", "find_vs_related",
                      "count_v_related", "count_v_followers"} THEN 2
    ELSE IF name \in {"remove_e", "upsert_e", "remove_es", "upsert_es"} THEN 3
    ELSE 4

\* C20: for every pair the operations run in the order import, reads,
\* writes, clearing: the import only on an in-memory backend, every read
\* before every write, remove-vertex and clear-all only when requested and
\* after the other writes.
C20_OperationsRunInTheFixedOrder ==
    (step \in {"task", "dump"}) =>
        /\ \A i, j \in 1..Len(trace) :
              i < j => Phase(trace[i]) <= Phase(trace[j])
        /\ \A i \in 1..Len(trace) :
              /\ Phase(trace[i]) = 1 => in_memory[db]
              /\ Phase(trace[i]) = 4 => remove_all_afterwards

\* Every operation from find edge to clear-all was run for a pair.
C20_Witness ==
    /\ step = "dump"
    /\ remove_all_afterwards
    /\ Len(trace) = Len(OpSeq) - 1
    /\ trace[1] = "find_e"
    /\ trace[Len(trace)] = "remove_bulk"

\* The operations that bench_task ran for the current pair.
Ran(name) == \E i \in 1..Len(trace) : trace[i] = name

\* C21: in any run, whatever the measurement store holds at its start, a
\* remove operation and its paired upsert operation are both run or both
\* skipped for a pair: when the operations of a pair are over, remove_e was
\* run exactly if upsert_e was, and remove_es exactly if upsert_es was.
C21_RemoveAndUpsertRunTogether ==
    (step = "dump" /\ ~exc) =>
        /\ Ran("remove_e") <=> Ran("upsert_e")
        /\ Ran("remove_es") <=> Ran("upsert_es")

\* C22: when insert_dump_parallel is over, it has returned and every edge
\* of the file has been passed to one insert_edges call that finished, for
\* any number of chunks and any chunk length: the edges inserted are the
\* edges of the file, each once.
C22_EveryEdgeInsertedOnce ==
    (ipc \in {"returned", "raised"}) =>
        /\ ipc = "returned"
        /\ remaining = 0
        /\ inserted = file_len

====
